---- MODULE Spec2Model ----
(***************************************************************************)
(* Cart, order, seller-card, product and account handlers of the           *)
(* marketplace API, over one document store (collections Carts, Orders,    *)
(* Products, Sellers, Users) and the identity provider.  src/index.js      *)
(* holds the order handler, the cart handlers that read the cart and then  *)
(* write it, and the seller-card and user handlers that cascade;           *)
(* src/unnamed/part_000 holds the cart handlers that run inside a store    *)
(* transaction and seller-card and user handlers of its own.  Both servers *)
(* address the same collections.                                           *)
(*                                                                         *)
(* A request is one process.  Each action is one awaited store call of a   *)
(* handler together with the synchronous code that follows it up to the    *)
(* next await (or the response).  A request arrives with its first store   *)
(* call.  Every store call may reject; the handler's catch block then      *)
(* answers 500.                                                            *)
(***************************************************************************)
EXTENDS Integers, Sequences, FiniteSets, TLC

\* ---------------------------------------------------------------- bounds
\* Number of requests one behaviour handles.
MaxReqs == 2

Users == {"u1", "u2"}
Products == {"p1", "p2"}
\* The line fields of a request body (name, price, imageUrl, Seller), as one token.
LineFields == {"a", "b"}

VARIABLES
  products,   \* collection Products: product id -> document
  carts,      \* collection Carts: user id -> document
  orders,     \* collection Orders: documents in creation order (the id is the index)
  sellers,    \* collection Sellers: user id -> document
  accounts,   \* user id -> the Users document and the identity of the provider
  reqs        \* the requests, in arrival order

vars == <<products, carts, orders, sellers, accounts, reqs>>

\* ------------------------------------------------------------ documents
NoProduct ==
  [exists |-> FALSE, hasStock |-> FALSE, stock |-> 0, sales |-> 0, fields |-> "a",
   SellerID |-> "", Seller |-> "", genre |-> "", hasTotal |-> FALSE, total |-> 0]
NoSeller == [exists |-> FALSE, title |-> "", genre |-> ""]
SellerDoc(title, genre) == [exists |-> TRUE, title |-> title, genre |-> genre]
\* A user who has signed up: a Users document and an identity at the provider.
Account == [doc |-> TRUE, identity |-> TRUE]
\* The title and genre of a request body; "" is a field left out.
NoBody == [title |-> "", genre |-> ""]
NoCart == [exists |-> FALSE, items |-> <<>>]
EmptyCart == [exists |-> TRUE, items |-> <<>>]

\* A cart line as both add handlers build it: quantity 1.
NewLine(id, f) == [id |-> id, fields |-> f, quantity |-> 1]

\* items.some(item => item.id === id)
AlreadyInCart(items, id) == \E i \in 1..Len(items) : items[i].id = id

\* FieldValue.arrayUnion(e): appends e unless an equal element is in the array.
ArrayUnion(items, e) ==
  IF \E i \in 1..Len(items) : items[i] = e THEN items ELSE Append(items, e)

\* items.filter(item => item.id !== productId)
FilterOut(items, id) == SelectSeq(items, LAMBDA x : x.id # id)

\* {...a, ...b}: the keys of both, b's value where both have the key.
Spread(a, b) ==
  [k \in (DOMAIN a) \cup (DOMAIN b) |-> IF k \in DOMAIN b THEN b[k] ELSE a[k]]

\* ------------------------------------------------------------- requests
Arrive == Len(reqs) < MaxReqs
Rid == DOMAIN reqs

\* A request at its arrival.  serial records that every earlier request had been
\* answered by then and had no call in flight.  status and keys are the status and
\* the keys of the body of the response (0 and none before it); details is the
\* message of the error that ended the request ("" when none did).
NewReq(kind, u, p, f) ==
  [kind |-> kind, user |-> u, pid |-> p, fields |-> f, pc |-> "start",
   serial |-> \A r \in Rid : reqs[r].pc = "done" /\ reqs[r].pending = {},
   snapExists |-> FALSE, snapItems |-> <<>>, idx |-> 0, oid |-> 0,
   psnap |-> NoProduct, body |-> NoBody, docs |-> {}, pending |-> {},
   amount |-> 0, total |-> 0, now |-> [year |-> 0, month |-> 0, day |-> 0],
   status |-> 0, keys |-> {}, details |-> ""]

\* res.status(code).json(...): the request is over.
Respond(q, code) == [q EXCEPT !.pc = "done", !.status = code, !.psnap = NoProduct]

\* res.status(code).json({ error: ... }): the handler refuses the request.
Refuse(q, code) == [Respond(q, code) EXCEPT !.keys = {"error"}]

\* The catch block: 500 with an error and details: error.message.
Fail(q, message) == [Respond(q, 500) EXCEPT !.keys = {"error", "details"}, !.details = message]

\* error.message of a store call that rejects for a reason of the store's own, and
\* of update() on a document that is not there.
Unavailable == "UNAVAILABLE"
NotFound == "NOT_FOUND"

\* ------------------------------------------------- POST /api/cart/add (index.js)
\* cartRef.get(), then the branch up to the write; a line already there answers 200.
AddItemGet(u, p, f, ok) ==
  /\ Arrive
  /\ LET q == [NewReq("add", u, p, f) EXCEPT
                 !.snapExists = carts[u].exists, !.snapItems = carts[u].items]
     IN reqs' = Append(reqs,
          IF ~ok THEN Fail(NewReq("add", u, p, f), Unavailable)
          ELSE IF carts[u].exists /\ AlreadyInCart(carts[u].items, p) THEN Respond(q, 200)
          ELSE [q EXCEPT !.pc = "write"])
  /\ UNCHANGED <<products, carts, orders, sellers, accounts>>

\* The document the add handler's write leaves: update with arrayUnion on a cart
\* that was there, set of a one-line cart otherwise.
AddItemWritten(q, cart) ==
  IF q.snapExists
  THEN [cart EXCEPT !.items = ArrayUnion(cart.items, NewLine(q.pid, q.fields))]
  ELSE [exists |-> TRUE, items |-> <<NewLine(q.pid, q.fields)>>]

AddItemWrite(r, ok) ==
  /\ reqs[r].kind = "add" /\ reqs[r].pc = "write"
  /\ LET q == reqs[r]
         \* update() rejects on a missing document
         found == q.snapExists => carts[q.user].exists
     IN /\ carts' = IF ok /\ found THEN [carts EXCEPT ![q.user] = AddItemWritten(q, @)]
                    ELSE carts
        /\ reqs' = [reqs EXCEPT ![r] =
                      IF ~ok THEN Fail(q, Unavailable)
                      ELSE IF ~found THEN Fail(q, NotFound)
                      ELSE Respond(q, 200)]
  /\ UNCHANGED <<products, orders, sellers, accounts>>

\* ------------------------------------- POST /api/cart/add (part_000, transaction)
\* Products.doc(productId).get(): 404 when the product is missing; the line fields
\* come from the product document.
AddTxProductGet(u, p, ok) ==
  /\ Arrive
  /\ reqs' = Append(reqs,
       IF ~ok THEN Fail(NewReq("addTx", u, p, "a"), Unavailable)
       ELSE IF ~products[p].exists THEN Refuse(NewReq("addTx", u, p, "a"), 404)
       ELSE [NewReq("addTx", u, p, products[p].fields) EXCEPT !.pc = "tx"])
  /\ UNCHANGED <<products, carts, orders, sellers, accounts>>

\* findIndex: the first index whose line has the id, 0 when there is none.
FindIndex(items, id) ==
  IF AlreadyInCart(items, id)
  THEN CHOOSE i \in 1..Len(items) :
         /\ items[i].id = id
         /\ \A j \in 1..(i - 1) : items[j].id # id
  ELSE 0

\* The cart the transaction body writes from the cart it read.
TxAdded(cart, p, f) ==
  IF cart.exists
  THEN IF FindIndex(cart.items, p) > 0
       THEN [cart EXCEPT !.items[FindIndex(cart.items, p)].quantity = @ + 1]
       ELSE [cart EXCEPT !.items = ArrayUnion(@, NewLine(p, f))]
  ELSE [exists |-> TRUE, items |-> <<NewLine(p, f)>>]

\* db.runTransaction: the read of the cart and its write are one atomic step.
AddTxCommit(r, ok) ==
  /\ reqs[r].kind = "addTx" /\ reqs[r].pc = "tx"
  /\ LET q == [reqs[r] EXCEPT !.snapExists = carts[reqs[r].user].exists,
                                !.snapItems = carts[reqs[r].user].items]
     IN /\ carts' = IF ok THEN [carts EXCEPT ![q.user] = TxAdded(@, q.pid, q.fields)]
                    ELSE carts
        /\ reqs' = [reqs EXCEPT ![r] =
                      IF ok THEN Respond(q, 200) ELSE Fail(reqs[r], Unavailable)]
  /\ UNCHANGED <<products, orders, sellers, accounts>>

\* ---------------------------------------------- POST /api/cart/remove (index.js)
RemoveGet(u, p, ok) ==
  /\ Arrive
  /\ LET q == [NewReq("remove", u, p, "a") EXCEPT
                 !.snapExists = carts[u].exists, !.snapItems = carts[u].items]
     IN reqs' = Append(reqs,
          IF ~ok THEN Fail(NewReq("remove", u, p, "a"), Unavailable)
          ELSE IF ~carts[u].exists THEN Respond(q, 200)
          ELSE [q EXCEPT !.pc = "write"])
  /\ UNCHANGED <<products, carts, orders, sellers, accounts>>

\* cartRef.update({ items: updatedItems }): the filtered snapshot replaces the list.
RemoveWrite(r, ok) ==
  /\ reqs[r].kind = "remove" /\ reqs[r].pc = "write"
  /\ LET q == reqs[r]
         found == carts[q.user].exists
     IN /\ carts' = IF ok /\ found
                    THEN [carts EXCEPT ![q.user].items = FilterOut(q.snapItems, q.pid)]
                    ELSE carts
        /\ reqs' = [reqs EXCEPT ![r] =
                      IF ~ok THEN Fail(q, Unavailable)
                      ELSE IF ~found THEN Fail(q, NotFound)
                      ELSE Respond(q, 200)]
  /\ UNCHANGED <<products, orders, sellers, accounts>>

\* ------------------------------- POST /api/cart/remove (part_000, transaction)
\* error.message of a call of something that is not a function.
TypeError == "TYPE_ERROR"

\* cartSnapshot.exists(): exists is a boolean property of the snapshot, so the call
\* throws for every cart; the transaction rejects without a write.
RemoveTx(u, p, ok) ==
  /\ Arrive
  /\ LET q == [NewReq("removeTx", u, p, "a") EXCEPT
                 !.snapExists = carts[u].exists, !.snapItems = carts[u].items]
     IN reqs' = Append(reqs,
          IF ~ok THEN Fail(NewReq("removeTx", u, p, "a"), Unavailable)
          ELSE Fail(q, TypeError))
  /\ UNCHANGED <<products, carts, orders, sellers, accounts>>

\* ------------------------------------------ DELETE /api/products/:id (one call)
\* Products.doc(productId).delete(), then 200; delete() of a missing document succeeds.
DeleteProduct(p, ok) ==
  /\ Arrive
  /\ products' = IF ok THEN [products EXCEPT ![p] = NoProduct] ELSE products
  /\ reqs' = Append(reqs,
       IF ok THEN Respond(NewReq("delete", "u1", p, "a"), 200)
       ELSE Fail(NewReq("delete", "u1", p, "a"), Unavailable))
  /\ UNCHANGED <<carts, orders, sellers, accounts>>

\* --------------------------------------------- PUT /api/products/:id (index.js)
\* The stock of a request body (image, name and price are the token "b").
EditStocks == {5}

\* productRef.update({ image, name, price, stock, updatedAt }), then 200; update()
\* rejects on a missing document.
EditProduct(u, p, stock, ok) ==
  /\ Arrive
  /\ LET found == products[p].exists
     IN /\ products' = IF ok /\ found
                       THEN [products EXCEPT ![p] =
                               [@ EXCEPT !.hasStock = TRUE, !.stock = stock, !.fields = "b"]]
                       ELSE products
        /\ reqs' = Append(reqs,
             IF ~ok THEN Fail(NewReq("edit", u, p, "b"), Unavailable)
             ELSE IF ~found THEN Fail(NewReq("edit", u, p, "b"), NotFound)
             ELSE Respond(NewReq("edit", u, p, "b"), 200))
  /\ UNCHANGED <<carts, orders, sellers, accounts>>

\* --------------------------------------- PATCH /api/products/:id/total (index.js)
\* The request bodies: amount, and whether it is a number.
PatchBodies ==
  { [amount |-> 1, numeric |-> TRUE], [amount |-> 2, numeric |-> TRUE],
    [amount |-> 0, numeric |-> FALSE] }

\* typeof productSnap.data().total === "number" ? productSnap.data().total : 0
CurrentTotal(doc) == IF doc.hasTotal THEN doc.total ELSE 0

\* The validation, productRef.get(), the 404, and newTotal = currentTotal + amount.
PatchTotalGet(u, p, b, ok) ==
  /\ Arrive
  /\ LET q == NewReq("patch", u, p, "a")
     IN reqs' = Append(reqs,
          IF ~b.numeric THEN Refuse(q, 400)
          ELSE IF ~ok THEN Fail(q, Unavailable)
          ELSE IF ~products[p].exists THEN Refuse(q, 404)
          ELSE [q EXCEPT !.pc = "update", !.amount = b.amount,
                         !.total = CurrentTotal(products[p]) + b.amount])
  /\ UNCHANGED <<products, carts, orders, sellers, accounts>>

\* productRef.update({ total: newTotal, updatedAt }), then 200 with total: newTotal.
PatchTotalUpdate(r, ok) ==
  /\ reqs[r].kind = "patch" /\ reqs[r].pc = "update"
  /\ LET q == reqs[r]
         found == products[q.pid].exists
     IN /\ products' = IF ok /\ found
                       THEN [products EXCEPT ![q.pid] =
                               [@ EXCEPT !.hasTotal = TRUE, !.total = q.total]]
                       ELSE products
        /\ reqs' = [reqs EXCEPT ![r] =
                      IF ~ok THEN Fail(q, Unavailable)
                      ELSE IF ~found THEN Fail(q, NotFound)
                      ELSE Respond(q, 200)]
  /\ UNCHANGED <<carts, orders, sellers, accounts>>

\* --------------------------------------------------- POST /api/orders (index.js)
\* cartData?.items || []
CartItems(cart) == IF cart.exists THEN cart.items ELSE <<>>

\* The check as it would read had it tested the snapshot's existence only.
CartIsAbsent(cart) == ~cart.exists

\* !cartItems.length
CartIsEmpty(cart) == Len(CartItems(cart)) = 0

\* The request bodies (orderDetails) an order request can carry.
OrderDetails ==
  { [address |-> "x"],
    [address |-> "x", items |-> <<>>, userId |-> "u2", status |-> "Shipped"] }

\* { userId, items: cartItems, ...orderDetails, createdAt, status: "Pending" }
OrderPayload(userId, cartItems, details) ==
  Spread(Spread([userId |-> userId, items |-> cartItems], details),
         [createdAt |-> "now", status |-> "Pending"])

\* The write as it would read had every order gone to one document id.
StoredAtFixedId(docs, payload) == <<payload>>

\* db.collection("Orders").doc().set(orderPayload): a document under an
\* auto-generated id, which no earlier order has.
Stored(docs, payload) == Append(docs, payload)

\* cartDocRef.get(); an empty or absent cart answers 400.
OrderGet(u, ok) ==
  /\ Arrive
  /\ LET q == [NewReq("order", u, "p1", "a") EXCEPT
                 !.snapExists = carts[u].exists, !.snapItems = CartItems(carts[u])]
     IN reqs' = Append(reqs,
          IF ~ok THEN Fail(NewReq("order", u, "p1", "a"), Unavailable)
          ELSE IF CartIsEmpty(carts[u]) THEN Refuse(q, 400)
          ELSE [q EXCEPT !.pc = "persist"])
  /\ UNCHANGED <<products, carts, orders, sellers, accounts>>

\* orderDocRef.set(orderPayload) under a fresh id; then the loop starts.
OrderPersist(r, details, ok) ==
  /\ reqs[r].kind = "order" /\ reqs[r].pc = "persist"
  /\ LET q == reqs[r]
     IN IF ok
        THEN /\ orders' = Stored(orders, OrderPayload(q.user, q.snapItems, details))
             /\ reqs' = [reqs EXCEPT ![r] =
                           [q EXCEPT !.pc = "pget", !.idx = 1, !.oid = Len(orders) + 1]]
        ELSE /\ orders' = orders
             /\ reqs' = [reqs EXCEPT ![r] = Fail(q, Unavailable)]
  /\ UNCHANGED <<products, carts, sellers, accounts>>

\* productRef.get() for the line at idx.  Every line carries a non-empty id, so
\* the guard if (item.id) lets every line through.
OrderProductGet(r, ok) ==
  /\ reqs[r].kind = "order" /\ reqs[r].pc = "pget"
  /\ LET q == reqs[r]
     IN reqs' = [reqs EXCEPT ![r] =
          IF ok THEN [q EXCEPT !.pc = "pupd", !.psnap = products[q.snapItems[q.idx].id]]
          ELSE Fail(q, Unavailable)]
  /\ UNCHANGED <<products, carts, orders, sellers, accounts>>

\* productSnap.exists && productSnap.data().stock !== undefined
TracksStock(snap) == snap.exists /\ snap.hasStock

\* The update as it would read had it counted the units of the line.
StockUpdateByQuantity(doc, snap, item) ==
  [doc EXCEPT !.sales = @ + item.quantity, !.stock = @ - item.quantity]

\* The update as it would read had it written back the values of the snapshot.
StockUpdateFromSnapshot(doc, snap, item) ==
  [doc EXCEPT !.sales = snap.sales + 1, !.stock = snap.stock - 1]

\* The update as it would read had it left the stock to a later call.
StockUpdateSalesOnly(doc, snap, item) == [doc EXCEPT !.sales = @ + 1]

\* update({sales: increment(1), stock: increment(-1)}): the increments apply to
\* the stored document doc; neither the snapshot snap the handler read nor the
\* line item of the loop enters them.
StockUpdate(doc, snap, item) == [doc EXCEPT !.sales = @ + 1, !.stock = @ - 1]

\* The update as it would read had it also decremented the stock: increment(-1)
\* on a field the document lacks creates it.
SalesUpdateWithStock(doc, snap, item) ==
  [doc EXCEPT !.sales = @ + 1, !.hasStock = TRUE, !.stock = @ - 1]

\* update({sales: increment(1)})
SalesUpdate(doc, snap, item) == [doc EXCEPT !.sales = @ + 1]

\* The loop as it would read had it left after its first line.
AfterFirstLine(q) == "clear"

\* for (const item of cartItems): the next line, or the statement after the loop.
AfterLine(q) == IF q.idx = Len(q.snapItems) THEN "clear" ELSE "pget"

\* productRef.update(...) for the line at idx; update() rejects on a missing
\* document.  Then the next line, or the cart clear after the last one.
OrderProductUpdate(r, ok) ==
  /\ reqs[r].kind = "order" /\ reqs[r].pc = "pupd"
  /\ LET q == reqs[r]
         item == q.snapItems[q.idx]
         p == item.id
         found == products[p].exists
     IN IF ok /\ found
        THEN /\ products' = [products EXCEPT ![p] =
                  IF TracksStock(q.psnap) THEN StockUpdate(@, q.psnap, item)
                  ELSE SalesUpdate(@, q.psnap, item)]
             /\ reqs' = [reqs EXCEPT ![r] =
                  [q EXCEPT !.idx = @ + 1, !.psnap = NoProduct,
                            !.pc = AfterLine(q)]]
        ELSE /\ products' = products
             /\ reqs' = [reqs EXCEPT ![r] = Fail(q, IF ok THEN NotFound ELSE Unavailable)]
  /\ UNCHANGED <<carts, orders, sellers, accounts>>

\* The clear as it would read had it deleted the cart document.
DeletedCart(cart) == NoCart

\* cartDocRef.set({ items: [] }, { merge: true })
ClearedCart(cart) == [cart EXCEPT !.exists = TRUE, !.items = <<>>]

\* The cart clear, then 200 with the order.
OrderClear(r, ok) ==
  /\ reqs[r].kind = "order" /\ reqs[r].pc = "clear"
  /\ LET q == reqs[r]
     IN /\ carts' = IF ok THEN [carts EXCEPT ![q.user] = ClearedCart(@)] ELSE carts
        /\ reqs' = [reqs EXCEPT ![r] = IF ok THEN Respond(q, 200) ELSE Fail(q, Unavailable)]
  /\ UNCHANGED <<products, orders, sellers, accounts>>

\* ------------------------------ GET /api/orders/monthly-performance (index.js)
\* Amounts are counted in thousandths.  A string is the tuple of its characters.
Digits == {"0", "1", "2", "3", "4", "5", "6", "7", "8", "9"}

DigitVal(c) ==
  CASE c = "0" -> 0 [] c = "1" -> 1 [] c = "2" -> 2 [] c = "3" -> 3 [] c = "4" -> 4
    [] c = "5" -> 5 [] c = "6" -> 6 [] c = "7" -> 7 [] c = "8" -> 8 [] c = "9" -> 9

\* A price as a cart line can carry it: a string, a number, or none.
StringPrice(chars) == [type |-> "string", chars |-> chars, value |-> 0]
NumberPrice(v) == [type |-> "number", chars |-> <<>>, value |-> v]
NoPrice == [type |-> "undefined", chars |-> <<>>, value |-> 0]

\* Not a number.
NaN == [nan |-> TRUE, value |-> 0]
Number(v) == [nan |-> FALSE, value |-> v]

\* priceValue.replace(/[^0-9.-]+/g, '')
Strip(chars) == SelectSeq(chars, LAMBDA c : c \in Digits \cup {".", "-"})

\* The digits a string starts with.
RECURSIVE DigitRun(_)
DigitRun(chars) ==
  IF chars = <<>> \/ Head(chars) \notin Digits THEN <<>>
  ELSE <<Head(chars)>> \o DigitRun(Tail(chars))

\* The value of a string of digits.
RECURSIVE Num(_)
Num(digits) ==
  IF digits = <<>> THEN 0
  ELSE Num(SubSeq(digits, 1, Len(digits) - 1)) * 10 + DigitVal(digits[Len(digits)])

\* The value of the digits after the dot, to the third.
Fraction(digits) ==
  LET d(i) == IF i <= Len(digits) THEN DigitVal(digits[i]) ELSE 0
  IN d(1) * 100 + d(2) * 10 + d(3)

\* parseFloat of a string: the longest prefix that is a decimal literal (a sign,
\* digits, a dot, digits; at least one digit), NaN when there is none.
ParseFloat(chars) ==
  LET neg == chars # <<>> /\ Head(chars) = "-"
      body == IF neg THEN Tail(chars) ELSE chars
      int == DigitRun(body)
      rest == SubSeq(body, Len(int) + 1, Len(body))
      frac == IF rest # <<>> /\ Head(rest) = "." THEN DigitRun(Tail(rest)) ELSE <<>>
      v == Num(int) * 1000 + Fraction(frac)
  IN IF int = <<>> /\ frac = <<>> THEN NaN
     ELSE Number(IF neg THEN 0 - v ELSE v)

\* x || 0
OrZero(x) == IF x.nan THEN 0 ELSE x.value

\* parsePrice
ParsePrice(priceValue) ==
  IF priceValue.type = "string" THEN OrZero(ParseFloat(Strip(priceValue.chars)))
  ELSE OrZero(IF priceValue.type = "number" THEN Number(priceValue.value) ELSE NaN)

\* A quantity as a cart line can carry it: a number, or a string.
NumberQuantity(n) == [numeric |-> TRUE, n |-> n]
StringQuantity(n) == [numeric |-> FALSE, n |-> n]

\* typeof item.quantity === 'number' ? item.quantity : 1
ItemQuantity(item) == IF item.quantity.numeric THEN item.quantity.n ELSE 1

\* The forEach over the items: orderTotal += itemPrice * itemQuantity.
RECURSIVE OrderTotal(_)
OrderTotal(items) ==
  IF items = <<>> THEN 0
  ELSE ParsePrice(Head(items).price) * ItemQuantity(Head(items)) + OrderTotal(Tail(items))

\* The total as it would read had it been added as it is.
Unrounded(x) == x

\* parseFloat(x.toFixed(2)): x to the nearest hundredth.  (A value halfway between
\* two hundredths goes where its binary expansion puts it; no total of the model's
\* lines is one.)
ToFixed2(x) ==
  IF x < 0 THEN 0 - ((0 - x + 5) \div 10) * 10 ELSE ((x + 5) \div 10) * 10

\* A point in time, to the day: month counts from 0, as getMonth() does.
Date(year, month, day) == [year |-> year, month |-> month, day |-> day]

\* new Date(year, month, 1), which carries a month outside 0..11 into the year.
FirstOf(year, month) == Date(year + (month \div 12), month % 12, 1)

\* a is earlier than b.
Before(a, b) ==
  \/ a.year < b.year
  \/ a.year = b.year /\ a.month < b.month
  \/ a.year = b.year /\ a.month = b.month /\ a.day < b.day

\* setFullYear(getFullYear() - 1), setDate(1), setHours(0, 0, 0, 0): the 29th of
\* February of a leap year becomes the 1st of March of the year before.
TwelveMonthsAgo(now) ==
  IF now.month = 1 /\ now.day = 29 THEN Date(now.year - 1, 2, 1)
  ELSE Date(now.year - 1, now.month, 1)

\* toLocaleString('en-US', { month: 'short' })
MonthName(date) ==
  <<"Jan", "Feb", "Mar", "Apr", "May", "Jun",
    "Jul", "Aug", "Sep", "Oct", "Nov", "Dec">>[date.month + 1]

\* for (i = 0; i < 12; i++) monthlySales.unshift({ month, year, total: 0 }): the
\* month of i = 0 ends last.
Unshifted(now) ==
  [k \in 1..12 |->
     LET date == FirstOf(now.year, now.month - (12 - k))
     IN [month |-> MonthName(date), year |-> date.year, total |-> 0]]

\* where('createdAt', '>=', twelveMonthsAgo.toISOString())
Since(docs, date) == SelectSeq(docs, LAMBDA o : ~Before(o.createdAt, date))

\* monthlySales.findIndex(m => m.month === ... && m.year === ...), 0 for -1.
TargetMonthIndex(monthlySales, date) ==
  LET found == {k \in 1..Len(monthlySales) :
                  /\ monthlySales[k].month = MonthName(date)
                  /\ monthlySales[k].year = date.year}
  IN IF found = {} THEN 0 ELSE CHOOSE k \in found : \A j \in found : k <= j

\* querySnapshot.forEach: each order's total goes to the bucket of its month.
RECURSIVE Tally(_, _)
Tally(monthlySales, docs) ==
  IF docs = <<>> THEN monthlySales
  ELSE LET k == TargetMonthIndex(monthlySales, Head(docs).createdAt)
       IN Tally(IF k = 0 THEN monthlySales
                ELSE [monthlySales EXCEPT
                        ![k].total = @ + ToFixed2(OrderTotal(Head(docs).items))],
                Tail(docs))

\* The query, the buckets, the tally, then 200 with the buckets; snapItems holds
\* the list sent.  No order is dated after the request, no request before an
\* earlier one.
MonthlyGet(u, now, ok) ==
  /\ Arrive
  /\ \A i \in DOMAIN orders : ~Before(now, orders[i].createdAt)
  /\ \A r \in Rid : ~Before(now, reqs[r].now)
  /\ LET q == [NewReq("monthly", u, "p1", "a") EXCEPT !.now = now]
     IN reqs' = Append(reqs,
          IF ok THEN [Respond(q, 200) EXCEPT
                        !.snapItems = Tally(Unshifted(now), Since(orders, TwelveMonthsAgo(now)))]
          ELSE Fail(q, Unavailable))
  /\ UNCHANGED <<products, carts, orders, sellers, accounts>>

\* ------------------------------------------ GET /api/cart/retrieve (index.js)
\* The items of the 200 response.
RetrieveItems(cart) == IF cart.exists THEN cart.items ELSE <<>>

\* cartRef.get(), then 200 with the items; snapItems holds the list sent.
RetrieveGet(u, ok) ==
  /\ Arrive
  /\ LET q == [NewReq("retrieve", u, "p1", "a") EXCEPT
                 !.snapExists = carts[u].exists, !.snapItems = RetrieveItems(carts[u])]
     IN reqs' = Append(reqs,
          IF ok THEN Respond(q, 200) ELSE Fail(NewReq("retrieve", u, "p1", "a"), Unavailable))
  /\ UNCHANGED <<products, carts, orders, sellers, accounts>>

\* ---------------------------------------------------- GET /api/cart (part_000)
\* Both branches send cartDoc.data().items || []; data() of a missing document is
\* undefined, so the else branch throws.
RetrieveCartGet(u, ok) ==
  /\ Arrive
  /\ LET q == [NewReq("retrieveCart", u, "p1", "a") EXCEPT
                 !.snapExists = carts[u].exists, !.snapItems = carts[u].items]
     IN reqs' = Append(reqs,
          IF ~ok THEN Fail(NewReq("retrieveCart", u, "p1", "a"), Unavailable)
          ELSE IF carts[u].exists THEN Respond(q, 200)
          ELSE Fail(q, TypeError))
  /\ UNCHANGED <<products, carts, orders, sellers, accounts>>

\* -------------------------------------------------- GET /api/orders (index.js)
\* ordersRef.where("userId", "==", userId).get(): the ids of the orders sent.
OrdersOf(u) == {i \in DOMAIN orders : orders[i].userId = u}

\* ----------------------------------------- POST /api/seller/card (index.js)
\* The seller-card bodies a request can carry (colour, description, image and text
\* colour are present in all of them).
SellerBodies ==
  { [title |-> "Z", genre |-> "k"], [title |-> "W", genre |-> "m"], [title |-> "", genre |-> "k"] }

\* !color || !description || !genre || !image || !textColor || !title
MissingField(body) == body.title = "" \/ body.genre = ""

\* where("SellerID", "==", userId).get(): the ids of the documents of the snapshot.
QueryBySeller(u) == {p \in Products : products[p].exists /\ products[p].SellerID = u}

\* The validation, then sellerCardRef.get() and the branch on docSnapshot.exists.
UpsertGet(u, body, ok) ==
  /\ Arrive
  /\ LET q == [NewReq("upsert", u, "p1", "a") EXCEPT
                 !.body = body, !.snapExists = sellers[u].exists]
     IN reqs' = Append(reqs,
          IF MissingField(body) THEN Refuse(q, 400)
          ELSE IF ~ok THEN Fail([q EXCEPT !.snapExists = FALSE], Unavailable)
          ELSE [q EXCEPT !.pc = IF sellers[u].exists THEN "update" ELSE "set"])
  /\ UNCHANGED <<products, carts, orders, sellers, accounts>>

\* sellerCardRef.update(sellerCardData); update() rejects on a missing document.
UpsertUpdate(r, ok) ==
  /\ reqs[r].kind = "upsert" /\ reqs[r].pc = "update"
  /\ LET q == reqs[r]
         found == sellers[q.user].exists
     IN /\ sellers' = IF ok /\ found
                      THEN [sellers EXCEPT ![q.user] = SellerDoc(q.body.title, q.body.genre)]
                      ELSE sellers
        /\ reqs' = [reqs EXCEPT ![r] =
                      IF ~ok THEN Fail(q, Unavailable)
                      ELSE IF ~found THEN Fail(q, NotFound)
                      ELSE [q EXCEPT !.pc = "query"]]
  /\ UNCHANGED <<products, carts, orders, accounts>>

\* productsRef.where('SellerID', '==', userId).get()
UpsertQuery(r, ok) ==
  /\ reqs[r].kind = "upsert" /\ reqs[r].pc = "query"
  /\ reqs' = [reqs EXCEPT ![r] =
       IF ok THEN [reqs[r] EXCEPT !.pc = "batch", !.docs = QueryBySeller(reqs[r].user)]
       ELSE Fail(reqs[r], Unavailable)]
  /\ UNCHANGED <<products, carts, orders, sellers, accounts>>

\* batch.update(doc.ref, { Seller: title, genre: genre })
Propagated(doc, body) == [doc EXCEPT !.Seller = body.title, !.genre = body.genre]

\* batch.commit(): all the updates or none; an update of a missing document makes
\* the commit reject.  Then 200.
UpsertBatch(r, ok) ==
  /\ reqs[r].kind = "upsert" /\ reqs[r].pc = "batch"
  /\ LET q == reqs[r]
         found == \A p \in q.docs : products[p].exists
     IN /\ products' = IF ok /\ found
                       THEN [p \in Products |->
                               IF p \in q.docs THEN Propagated(products[p], q.body)
                               ELSE products[p]]
                       ELSE products
        /\ reqs' = [reqs EXCEPT ![r] =
                      IF ~ok THEN Fail(q, Unavailable)
                      ELSE IF ~found THEN Fail(q, NotFound)
                      ELSE Respond(q, 200)]
  /\ UNCHANGED <<carts, orders, sellers, accounts>>

\* sellerCardRef.set(sellerCardData), then 201.
UpsertSet(r, ok) ==
  /\ reqs[r].kind = "upsert" /\ reqs[r].pc = "set"
  /\ LET q == reqs[r]
     IN /\ sellers' = IF ok THEN [sellers EXCEPT ![q.user] = SellerDoc(q.body.title, q.body.genre)]
                      ELSE sellers
        /\ reqs' = [reqs EXCEPT ![r] = IF ok THEN Respond(q, 201) ELSE Fail(q, Unavailable)]
  /\ UNCHANGED <<products, carts, orders, accounts>>

\* ---------------------------------------- POST /api/sellers/card (part_000)
\* sellerDocRef.set({...}, { merge: true }), then 200: no validation, no read, no
\* product touched.
UpsertMerge(u, body, ok) ==
  /\ Arrive
  /\ ~MissingField(body)
  /\ LET q == [NewReq("upsertMerge", u, "p1", "a") EXCEPT
                 !.body = body, !.snapExists = sellers[u].exists]
     IN reqs' = Append(reqs, IF ok THEN Respond(q, 200) ELSE Fail(q, Unavailable))
  /\ sellers' = IF ok THEN [sellers EXCEPT ![u] = SellerDoc(body.title, body.genre)]
                ELSE sellers
  /\ UNCHANGED <<products, carts, orders, accounts>>

\* --------------------------------------------- POST /api/products (index.js)
\* sellerData.title || "Unknown Store" and sellerData.genre || "Unknown"
StoreOf(seller) ==
  [title |-> IF seller.exists /\ seller.title # "" THEN seller.title ELSE "Unknown Store",
   genre |-> IF seller.exists /\ seller.genre # "" THEN seller.genre ELSE "Unknown"]

\* sellerDocRef.get(): the store name and genre the product will carry.
CreateProductGet(u, ok) ==
  /\ Arrive
  /\ LET q == [NewReq("create", u, "p1", "a") EXCEPT
                 !.body = StoreOf(sellers[u]), !.snapExists = sellers[u].exists]
     IN reqs' = Append(reqs,
          IF ok THEN [q EXCEPT !.pc = "add"] ELSE Fail(NewReq("create", u, "p1", "a"), Unavailable))
  /\ UNCHANGED <<products, carts, orders, sellers, accounts>>

\* An id add() can generate: one no document has and no snapshot holds.
Fresh(p) == ~products[p].exists /\ \A r \in Rid : p \notin reqs[r].docs

\* The document productsRef.add(...) creates.
NewProduct(u, store) ==
  [exists |-> TRUE, hasStock |-> TRUE, stock |-> 3, sales |-> 0, fields |-> "a",
   SellerID |-> u, Seller |-> store.title, genre |-> store.genre,
   hasTotal |-> FALSE, total |-> 0]

\* productsRef.add({...}) under the generated id p, then 200.
CreateProductAdd(r, p, ok) ==
  /\ reqs[r].kind = "create" /\ reqs[r].pc = "add"
  /\ Fresh(p)
  /\ LET q == reqs[r]
     IN /\ products' = IF ok THEN [products EXCEPT ![p] = NewProduct(q.user, q.body)]
                       ELSE products
        /\ reqs' = [reqs EXCEPT ![r] =
                      IF ok THEN Respond([q EXCEPT !.pid = p], 200) ELSE Fail(q, Unavailable)]
  /\ UNCHANGED <<carts, orders, sellers, accounts>>

\* ------------------------------------------ DELETE /api/seller/card (index.js)
\* The query; the deletes of its documents are then all issued at once.  With no
\* document Promise.all([]) resolves and the seller delete is next.  (First, the
\* step as it would read had the handler not awaited the deletes.)
IssuedUnawaited(q, docs) == [q EXCEPT !.docs = docs, !.pending = docs, !.pc = "seller"]

Issued(q, docs) ==
  [q EXCEPT !.docs = docs, !.pending = docs, !.pc = IF docs = {} THEN "seller" ELSE "deletes"]

DeleteCardQuery(u, ok) ==
  /\ Arrive
  /\ reqs' = Append(reqs,
       IF ok THEN Issued(NewReq("deleteCard", u, "p1", "a"), QueryBySeller(u))
       ELSE Fail(NewReq("deleteCard", u, "p1", "a"), Unavailable))
  /\ UNCHANGED <<products, carts, orders, sellers, accounts>>

\* One of the issued deletes settles.  Promise.all resolves when the last one has
\* succeeded and rejects at the first one that fails: the handler then answers 500
\* while the deletes still in flight go on.
DeleteOne(r, p, ok) ==
  /\ p \in reqs[r].pending
  /\ LET q == [reqs[r] EXCEPT !.pending = @ \ {p}]
     IN /\ products' = IF ok THEN [products EXCEPT ![p] = NoProduct] ELSE products
        /\ reqs' = [reqs EXCEPT ![r] =
                      IF q.pc # "deletes" THEN q
                      ELSE IF ~ok THEN Fail(q, Unavailable)
                      ELSE IF q.pending = {} THEN [q EXCEPT !.pc = "seller"]
                      ELSE q]
  /\ UNCHANGED <<carts, orders, sellers, accounts>>

\* Sellers.doc(userId).delete(); the card handlers then answer 200, the user
\* handler goes on to the Users document.
DeleteSeller(r, ok) ==
  /\ reqs[r].pc = "seller"
  /\ LET q == reqs[r]
     IN /\ sellers' = IF ok THEN [sellers EXCEPT ![q.user] = NoSeller] ELSE sellers
        /\ reqs' = [reqs EXCEPT ![r] =
                      IF ~ok THEN Fail(q, Unavailable)
                      ELSE IF q.kind = "deleteUser" THEN [q EXCEPT !.pc = "user"]
                      ELSE Respond(q, 200)]
  /\ UNCHANGED <<products, carts, orders, accounts>>

\* --------------------------------------- DELETE /api/sellers/card (part_000)
DeleteCardBatchQuery(u, ok) ==
  /\ Arrive
  /\ reqs' = Append(reqs,
       IF ok THEN [NewReq("deleteCardBatch", u, "p1", "a") EXCEPT
                     !.docs = QueryBySeller(u), !.pc = "batch"]
       ELSE Fail(NewReq("deleteCardBatch", u, "p1", "a"), Unavailable))
  /\ UNCHANGED <<products, carts, orders, sellers, accounts>>

\* batch.commit() of the deletes: all of them or none; the seller delete is next.
DeleteCardBatch(r, ok) ==
  /\ reqs[r].kind = "deleteCardBatch" /\ reqs[r].pc = "batch"
  /\ LET q == reqs[r]
     IN /\ products' = IF ok THEN [p \in Products |->
                                     IF p \in q.docs THEN NoProduct ELSE products[p]]
                       ELSE products
        /\ reqs' = [reqs EXCEPT ![r] =
                      IF ok THEN [q EXCEPT !.pc = "seller"] ELSE Fail(q, Unavailable)]
  /\ UNCHANGED <<carts, orders, sellers, accounts>>

\* ---------------------------------------- DELETE /api/users/:userId (index.js)
\* The 403 check, then Sellers.doc(userId).get() and the branch on sellerDoc.exists.
DeleteUserGet(u, userId, ok) ==
  /\ Arrive
  /\ LET q == [NewReq("deleteUser", u, "p1", "a") EXCEPT !.snapExists = sellers[u].exists]
     IN reqs' = Append(reqs,
          IF u # userId THEN Refuse(NewReq("deleteUser", u, "p1", "a"), 403)
          ELSE IF ~ok THEN Fail(NewReq("deleteUser", u, "p1", "a"), Unavailable)
          ELSE [q EXCEPT !.pc = IF sellers[u].exists THEN "query" ELSE "user"])
  /\ UNCHANGED <<products, carts, orders, sellers, accounts>>

\* The query of the seller's products; the deletes are issued as in the card handler.
DeleteUserQuery(r, ok) ==
  /\ reqs[r].kind = "deleteUser" /\ reqs[r].pc = "query"
  /\ reqs' = [reqs EXCEPT ![r] =
       IF ok THEN Issued(reqs[r], QueryBySeller(reqs[r].user)) ELSE Fail(reqs[r], Unavailable)]
  /\ UNCHANGED <<products, carts, orders, sellers, accounts>>

\* Users.doc(userId).delete()
DeleteUserDoc(r, ok) ==
  /\ reqs[r].kind = "deleteUser" /\ reqs[r].pc = "user"
  /\ LET q == reqs[r]
     IN /\ accounts' = IF ok THEN [accounts EXCEPT ![q.user].doc = FALSE] ELSE accounts
        /\ reqs' = [reqs EXCEPT ![r] =
                      IF ok THEN [q EXCEPT !.pc = "identity"] ELSE Fail(q, Unavailable)]
  /\ UNCHANGED <<products, carts, orders, sellers>>

\* admin.auth().deleteUser(userId), then 200; it rejects for an identity that is
\* not there.
DeleteIdentity(r, ok) ==
  /\ reqs[r].kind = "deleteUser" /\ reqs[r].pc = "identity"
  /\ LET q == reqs[r]
         found == accounts[q.user].identity
     IN /\ accounts' = IF ok /\ found THEN [accounts EXCEPT ![q.user].identity = FALSE]
                       ELSE accounts
        /\ reqs' = [reqs EXCEPT ![r] =
                      IF ~ok THEN Fail(q, Unavailable)
                      ELSE IF ~found THEN Fail(q, NotFound)
                      ELSE Respond(q, 200)]
  /\ UNCHANGED <<products, carts, orders, sellers>>

\* ---------------------------------------- DELETE /api/users/:userId (part_000)
\* The 403 check, then Users.doc(userId).delete() and 200: nothing else is deleted.
DeleteUserOnly(u, userId, ok) ==
  /\ Arrive
  /\ reqs' = Append(reqs,
       IF u # userId THEN Refuse(NewReq("deleteUserOnly", u, "p1", "a"), 403)
       ELSE IF ok THEN Respond([NewReq("deleteUserOnly", u, "p1", "a") EXCEPT
                                  !.snapExists = sellers[u].exists], 200)
       ELSE Fail(NewReq("deleteUserOnly", u, "p1", "a"), Unavailable))
  /\ accounts' = IF u = userId /\ ok THEN [accounts EXCEPT ![u].doc = FALSE] ELSE accounts
  /\ UNCHANGED <<products, carts, orders, sellers>>

\* ---------------------------------------- GET /api/products/seller (index.js)
\* The ids of the products sent to seller u.
SellerProducts(u) == {p \in Products : products[p].exists /\ products[p].SellerID = u}

\* ------------------------------------ GET /api/roles/:roleName/size (index.js)
\* The catch block reads roleName, a const of the try block, and so throws a
\* ReferenceError before it sends anything: the handler's promise rejects.  A
\* router that forwards a rejected handler to its default error handler answers
\* 500 with a body that is no JSON object (forwarded); one that does not leaves
\* the request with no response.
ThrownInCatch(q, message, forwarded) ==
  IF forwarded THEN [Respond(q, 500) EXCEPT !.details = message]
  ELSE [q EXCEPT !.pc = "hung", !.details = message]

\* usersRef.where('Role', '==', roleName).count().get(), then 200 with the count.
RoleSizeGet(u, ok, forwarded) ==
  /\ Arrive
  /\ reqs' = Append(reqs,
       IF ok THEN Respond(NewReq("roleSize", u, "p1", "a"), 200)
       ELSE ThrownInCatch(NewReq("roleSize", u, "p1", "a"), Unavailable, forwarded))
  /\ UNCHANGED <<products, carts, orders, sellers, accounts>>

\* ------------------------------------------- GET /api/seller/latest (index.js)
\* error.code of a read the store's rules refuse.
PermissionDenied == "permission-denied"

\* The catch block: 403 or 500 with a body { message: ... }.
FailWithMessage(q, message) ==
  [Respond(q, IF message = PermissionDenied THEN 403 ELSE 500) EXCEPT
     !.keys = {"message"}, !.details = message]

\* sellersRef.orderBy('updatedAt', 'desc').limit(5).get(), then 200 with the list;
\* err is the error the read rejects with ("" when it does not).
LatestSellersGet(u, err) ==
  /\ Arrive
  /\ reqs' = Append(reqs,
       IF err = "" THEN Respond(NewReq("latest", u, "p1", "a"), 200)
       ELSE FailWithMessage(NewReq("latest", u, "p1", "a"), err))
  /\ UNCHANGED <<products, carts, orders, sellers, accounts>>

\* ------------------------------ GET /api/sellers/:sellerId/products (part_000)
\* A public route: user holds the sellerId of the path.  The catch block reads
\* sellerId, a const of the try block.
SellerCatalogGet(sellerId, ok, forwarded) ==
  /\ Arrive
  /\ reqs' = Append(reqs,
       IF ok THEN Respond([NewReq("catalog", sellerId, "p1", "a") EXCEPT
                             !.docs = QueryBySeller(sellerId)], 200)
       ELSE ThrownInCatch(NewReq("catalog", sellerId, "p1", "a"), Unavailable, forwarded))
  /\ UNCHANGED <<products, carts, orders, sellers, accounts>>

\* ------------------------------------------------------------ specification
\* The carts a behaviour starts from, each one left behind by earlier add requests
\* (and, for the empty one, by a remove or an order): no cart document, an empty
\* cart, a one-line cart, and a two-line cart whose first line has quantity 2.
OneLineCart == [exists |-> TRUE, items |-> <<NewLine("p1", "a")>>]
TwoLineCart ==
  [exists |-> TRUE,
   items |-> <<[NewLine("p1", "a") EXCEPT !.quantity = 2], NewLine("p2", "a")>>]

InitCarts == [u1 |-> {NoCart, TwoLineCart}, u2 |-> {EmptyCart, OneLineCart}]

\* A product as the catalogue holds it before any order: a stock count, no sale.
InitProduct ==
  [exists |-> TRUE, hasStock |-> TRUE, stock |-> 3, sales |-> 0, fields |-> "a",
   SellerID |-> "u1", Seller |-> "X", genre |-> "g", hasTotal |-> FALSE, total |-> 0]

Init ==
  /\ products = [p \in Products |-> InitProduct]
  /\ carts \in [Users -> UNION {InitCarts[u] : u \in Users}]
  /\ \A u \in Users : carts[u] \in InitCarts[u]
  /\ orders = <<>>
  /\ sellers = [u \in Users |-> IF u = "u1" THEN SellerDoc("X", "g") ELSE NoSeller]
  /\ accounts = [u \in Users |-> Account]
  /\ reqs = <<>>

Next ==
  \/ \E u \in Users, p \in Products, f \in LineFields, ok \in BOOLEAN : AddItemGet(u, p, f, ok)
  \/ \E r \in Rid, ok \in BOOLEAN : AddItemWrite(r, ok)
  \/ \E u \in Users, p \in Products, ok \in BOOLEAN : AddTxProductGet(u, p, ok)
  \/ \E r \in Rid, ok \in BOOLEAN : AddTxCommit(r, ok)
  \/ \E u \in Users, p \in Products, ok \in BOOLEAN : RemoveGet(u, p, ok)
  \/ \E r \in Rid, ok \in BOOLEAN : RemoveWrite(r, ok)
  \/ \E u \in Users, p \in Products, ok \in BOOLEAN : RemoveTx(u, p, ok)
  \/ \E u \in Users, ok \in BOOLEAN : RetrieveGet(u, ok)
  \/ \E u \in Users, ok \in BOOLEAN : RetrieveCartGet(u, ok)
  \/ \E p \in Products, ok \in BOOLEAN : DeleteProduct(p, ok)
  \/ \E u \in Users, ok \in BOOLEAN : OrderGet(u, ok)
  \/ \E r \in Rid, d \in OrderDetails, ok \in BOOLEAN : OrderPersist(r, d, ok)
  \/ \E r \in Rid, ok \in BOOLEAN : OrderProductGet(r, ok)
  \/ \E r \in Rid, ok \in BOOLEAN : OrderProductUpdate(r, ok)
  \/ \E r \in Rid, ok \in BOOLEAN : OrderClear(r, ok)

Spec == Init /\ [][Next]_vars

\* Order requests and product deletions only: the carts change by placeOrder alone.
NextOrders ==
  \/ \E p \in Products, ok \in BOOLEAN : DeleteProduct(p, ok)
  \/ \E u \in Users, ok \in BOOLEAN : OrderGet(u, ok)
  \/ \E r \in Rid, d \in OrderDetails, ok \in BOOLEAN : OrderPersist(r, d, ok)
  \/ \E r \in Rid, ok \in BOOLEAN : OrderProductGet(r, ok)
  \/ \E r \in Rid, ok \in BOOLEAN : OrderProductUpdate(r, ok)
  \/ \E r \in Rid, ok \in BOOLEAN : OrderClear(r, ok)

SpecOrders == Init /\ [][NextOrders]_vars

\* A product with no stock field: its inventory is not tracked.
UntrackedProduct == [InitProduct EXCEPT !.hasStock = FALSE, !.stock = 0]

\* Order requests alone, on a two-line and a one-line cart, the second product
\* with or without a stock field: no product is edited or deleted.
InitSettle ==
  /\ products \in [Products -> {InitProduct, UntrackedProduct}]
  /\ products["p1"] = InitProduct
  /\ carts = [u1 |-> TwoLineCart, u2 |-> OneLineCart]
  /\ orders = <<>>
  /\ sellers = [u \in Users |-> IF u = "u1" THEN SellerDoc("X", "g") ELSE NoSeller]
  /\ accounts = [u \in Users |-> Account]
  /\ reqs = <<>>

NextSettle ==
  \/ \E u \in Users, ok \in BOOLEAN : OrderGet(u, ok)
  \/ \E r \in Rid, d \in OrderDetails, ok \in BOOLEAN : OrderPersist(r, d, ok)
  \/ \E r \in Rid, ok \in BOOLEAN : OrderProductGet(r, ok)
  \/ \E r \in Rid, ok \in BOOLEAN : OrderProductUpdate(r, ok)
  \/ \E r \in Rid, ok \in BOOLEAN : OrderClear(r, ok)

SpecSettle == InitSettle /\ [][NextSettle]_vars

\* The stores a behaviour of the seller handlers starts from, each one left behind
\* by earlier seller-card and product requests: a seller with one product next to
\* another seller with one, a seller with two products, and a user with no seller
\* card and no product next to a seller with one.
OwnedProduct(u, title, genre) ==
  [InitProduct EXCEPT !.SellerID = u, !.Seller = title, !.genre = genre]

InitStores ==
  { [sellers |-> [u1 |-> SellerDoc("X", "g"), u2 |-> SellerDoc("Y", "h")],
     products |-> [p1 |-> OwnedProduct("u1", "X", "g"), p2 |-> OwnedProduct("u2", "Y", "h")]],
    [sellers |-> [u1 |-> SellerDoc("X", "g"), u2 |-> NoSeller],
     products |-> [p1 |-> OwnedProduct("u1", "X", "g"), p2 |-> OwnedProduct("u1", "X", "g")]],
    [sellers |-> [u1 |-> NoSeller, u2 |-> SellerDoc("Y", "h")],
     products |-> [p1 |-> NoProduct, p2 |-> OwnedProduct("u2", "Y", "h")]] }

InitSellers ==
  /\ \E s \in InitStores : sellers = s.sellers /\ products = s.products
  /\ carts = [u \in Users |-> NoCart]
  /\ orders = <<>>
  /\ accounts = [u \in Users |-> Account]
  /\ reqs = <<>>

\* The seller-card, product-creation and user-deletion handlers.
NextSellers ==
  \/ \E u \in Users, b \in SellerBodies, ok \in BOOLEAN : UpsertGet(u, b, ok)
  \/ \E r \in Rid, ok \in BOOLEAN : UpsertUpdate(r, ok)
  \/ \E r \in Rid, ok \in BOOLEAN : UpsertQuery(r, ok)
  \/ \E r \in Rid, ok \in BOOLEAN : UpsertBatch(r, ok)
  \/ \E r \in Rid, ok \in BOOLEAN : UpsertSet(r, ok)
  \/ \E u \in Users, b \in SellerBodies, ok \in BOOLEAN : UpsertMerge(u, b, ok)
  \/ \E u \in Users, ok \in BOOLEAN : CreateProductGet(u, ok)
  \/ \E r \in Rid, p \in Products, ok \in BOOLEAN : CreateProductAdd(r, p, ok)
  \/ \E u \in Users, ok \in BOOLEAN : DeleteCardQuery(u, ok)
  \/ \E r \in Rid, p \in Products, ok \in BOOLEAN : DeleteOne(r, p, ok)
  \/ \E r \in Rid, ok \in BOOLEAN : DeleteSeller(r, ok)
  \/ \E u \in Users, ok \in BOOLEAN : DeleteCardBatchQuery(u, ok)
  \/ \E r \in Rid, ok \in BOOLEAN : DeleteCardBatch(r, ok)
  \/ \E u, userId \in Users, ok \in BOOLEAN : DeleteUserGet(u, userId, ok)
  \/ \E r \in Rid, ok \in BOOLEAN : DeleteUserQuery(r, ok)
  \/ \E r \in Rid, ok \in BOOLEAN : DeleteUserDoc(r, ok)
  \/ \E r \in Rid, ok \in BOOLEAN : DeleteIdentity(r, ok)
  \/ \E u, userId \in Users, ok \in BOOLEAN : DeleteUserOnly(u, userId, ok)

SpecSellers == InitSellers /\ [][NextSellers]_vars

\* Product creation and the seller-card deletions of both servers only.
NextCards ==
  \/ \E u \in Users, ok \in BOOLEAN : CreateProductGet(u, ok)
  \/ \E r \in Rid, p \in Products, ok \in BOOLEAN : CreateProductAdd(r, p, ok)
  \/ \E u \in Users, ok \in BOOLEAN : DeleteCardQuery(u, ok)
  \/ \E r \in Rid, p \in Products, ok \in BOOLEAN : DeleteOne(r, p, ok)
  \/ \E r \in Rid, ok \in BOOLEAN : DeleteSeller(r, ok)
  \/ \E u \in Users, ok \in BOOLEAN : DeleteCardBatchQuery(u, ok)
  \/ \E r \in Rid, ok \in BOOLEAN : DeleteCardBatch(r, ok)

SpecCards == InitSellers /\ [][NextCards]_vars

\* The handlers that write a product directly.
NextProducts ==
  \/ \E u \in Users, p \in Products, st \in EditStocks, ok \in BOOLEAN : EditProduct(u, p, st, ok)
  \/ \E p \in Products, ok \in BOOLEAN : DeleteProduct(p, ok)
  \/ \E u \in Users, p \in Products, b \in PatchBodies, ok \in BOOLEAN : PatchTotalGet(u, p, b, ok)
  \/ \E r \in Rid, ok \in BOOLEAN : PatchTotalUpdate(r, ok)

SpecProducts == Init /\ [][NextProducts]_vars

\* A store with a history: user u1 has ordered the one-line cart and has put the
\* product in the cart again since.
InitHistory ==
  /\ products = [p \in Products |->
                   IF p = "p1" THEN StockUpdate(InitProduct, InitProduct, NewLine("p1", "a"))
                   ELSE InitProduct]
  /\ carts = [u1 |-> OneLineCart, u2 |-> NoCart]
  /\ orders = Stored(<<>>, OrderPayload("u1", OneLineCart.items, [address |-> "x"]))
  /\ sellers = [u \in Users |-> IF u = "u1" THEN SellerDoc("X", "g") ELSE NoSeller]
  /\ accounts = [u \in Users |-> Account]
  /\ reqs = <<>>

\* The caller and the product of the requests that follow the order, and one
\* body for each kind of request that carries one.
Caller == {"u1"}
Ordered == {"p1"}
CardBodies == {b \in SellerBodies : ~MissingField(b) /\ b.title = "Z"}
Amounts == {b \in PatchBodies : b.numeric /\ b.amount = 1}
Details == {d \in OrderDetails : "status" \in DOMAIN d}

\* Every handler that writes the store, called by the user who ordered.
NextHistory ==
  \/ \E u \in Caller, p \in Ordered, st \in EditStocks, ok \in BOOLEAN : EditProduct(u, p, st, ok)
  \/ \E p \in Ordered, ok \in BOOLEAN : DeleteProduct(p, ok)
  \/ \E u \in Caller, p \in Ordered, b \in Amounts, ok \in BOOLEAN : PatchTotalGet(u, p, b, ok)
  \/ \E r \in Rid, ok \in BOOLEAN : PatchTotalUpdate(r, ok)
  \/ \E u \in Caller, b \in CardBodies, ok \in BOOLEAN : UpsertGet(u, b, ok)
  \/ \E r \in Rid, ok \in BOOLEAN : UpsertUpdate(r, ok)
  \/ \E r \in Rid, ok \in BOOLEAN : UpsertQuery(r, ok)
  \/ \E r \in Rid, ok \in BOOLEAN : UpsertBatch(r, ok)
  \/ \E r \in Rid, ok \in BOOLEAN : UpsertSet(r, ok)
  \/ \E u \in Caller, b \in CardBodies, ok \in BOOLEAN : UpsertMerge(u, b, ok)
  \/ \E u \in Caller, ok \in BOOLEAN : DeleteCardQuery(u, ok)
  \/ \E r \in Rid, p \in Products, ok \in BOOLEAN : DeleteOne(r, p, ok)
  \/ \E r \in Rid, ok \in BOOLEAN : DeleteSeller(r, ok)
  \/ \E u \in Caller, ok \in BOOLEAN : DeleteCardBatchQuery(u, ok)
  \/ \E r \in Rid, ok \in BOOLEAN : DeleteCardBatch(r, ok)
  \/ \E u \in Caller, p \in Ordered, ok \in BOOLEAN : AddItemGet(u, p, "b", ok)
  \/ \E r \in Rid, ok \in BOOLEAN : AddItemWrite(r, ok)
  \/ \E u \in Caller, p \in Ordered, ok \in BOOLEAN : AddTxProductGet(u, p, ok)
  \/ \E r \in Rid, ok \in BOOLEAN : AddTxCommit(r, ok)
  \/ \E u \in Caller, p \in Ordered, ok \in BOOLEAN : RemoveGet(u, p, ok)
  \/ \E r \in Rid, ok \in BOOLEAN : RemoveWrite(r, ok)
  \/ \E u \in Caller, p \in Ordered, ok \in BOOLEAN : RemoveTx(u, p, ok)
  \/ \E u \in Caller, ok \in BOOLEAN : OrderGet(u, ok)
  \/ \E r \in Rid, d \in Details, ok \in BOOLEAN : OrderPersist(r, d, ok)
  \/ \E r \in Rid, ok \in BOOLEAN : OrderProductGet(r, ok)
  \/ \E r \in Rid, ok \in BOOLEAN : OrderProductUpdate(r, ok)
  \/ \E r \in Rid, ok \in BOOLEAN : OrderClear(r, ok)
  \/ \E u, userId \in Caller, ok \in BOOLEAN : DeleteUserGet(u, userId, ok)
  \/ \E r \in Rid, ok \in BOOLEAN : DeleteUserQuery(r, ok)
  \/ \E r \in Rid, ok \in BOOLEAN : DeleteUserDoc(r, ok)
  \/ \E r \in Rid, ok \in BOOLEAN : DeleteIdentity(r, ok)
  \/ \E u, userId \in Caller, ok \in BOOLEAN : DeleteUserOnly(u, userId, ok)

SpecHistory == InitHistory /\ [][NextHistory]_vars

\* The orders a report can find.  The prices: a currency string, a number, a
\* string with no number in it, no price, a negative amount between other
\* characters, and a number below the hundredth.  The quantities: a number and a
\* string.  The dates: around the two moments the report is asked at, the
\* 2nd of November 2026 and the 29th of February 2028.
Prices ==
  { StringPrice(<<"R", "1", "2", ".", "5", "0">>), NumberPrice(3000),
    StringPrice(<<"f", "r", "e", "e">>), NoPrice,
    StringPrice(<<"-", "R", "1", ",", "0", "0", "0", ".", "5", "0", "-">>),
    NumberPrice(4) }
Quantities == {NumberQuantity(2), StringQuantity(2)}
Nows == {Date(2026, 10, 2), Date(2028, 1, 29)}
CreatedAts ==
  { Date(2025, 10, 15), Date(2025, 11, 1), Date(2026, 10, 1),
    Date(2027, 1, 28), Date(2027, 2, 1) }

\* An order as POST /api/orders stored it on the day createdAt.
DatedOrder(createdAt, items) ==
  [OrderPayload("u1", items, [address |-> "x"]) EXCEPT !.createdAt = createdAt]

Lines == {[id |-> "p1", price |-> pr, quantity |-> qt] : pr \in Prices, qt \in Quantities}
DatedOrders == {DatedOrder(d, <<l>>) : d \in CreatedAts, l \in Lines}

\* Up to two orders, stored in the order of their dates.
InitMonthly ==
  /\ orders \in {<<>>} \cup {<<o>> : o \in DatedOrders}
                \cup {<<o1, o2>> : o1 \in DatedOrders, o2 \in DatedOrders}
  /\ \A i, j \in DOMAIN orders : i < j => ~Before(orders[j].createdAt, orders[i].createdAt)
  /\ products = [p \in Products |-> InitProduct]
  /\ carts = [u \in Users |-> EmptyCart]
  /\ sellers = [u \in Users |-> IF u = "u1" THEN SellerDoc("X", "g") ELSE NoSeller]
  /\ accounts = [u \in Users |-> Account]
  /\ reqs = <<>>

NextMonthly == \E u \in Caller, now \in Nows, ok \in BOOLEAN : MonthlyGet(u, now, ok)

SpecMonthly == InitMonthly /\ [][NextMonthly]_vars

\* The handlers that only read the store.
NextReads ==
  \/ \E u \in Users, ok \in BOOLEAN : RetrieveGet(u, ok)
  \/ \E u \in Users, ok \in BOOLEAN : RetrieveCartGet(u, ok)
  \/ \E u \in Users, ok, fw \in BOOLEAN : RoleSizeGet(u, ok, fw)
  \/ \E u \in Users, err \in {"", Unavailable, PermissionDenied} : LatestSellersGet(u, err)
  \/ \E u \in Users, ok, fw \in BOOLEAN : SellerCatalogGet(u, ok, fw)

SpecReads == Init /\ [][NextReads]_vars

\* ================================================================== claims
IsAdd(q) == q.kind \in {"add", "addTx"}
IsOrder(q) == q.kind = "order"
Answered(q, code) == q.pc = "done" /\ q.status = code
LinesOf(items, p) == {i \in 1..Len(items) : items[i].id = p}

\* C1: after n serial successful add requests of user u for product p, the first
\* of which found no line for p, and nothing else since, the cart of u has exactly
\* one line for p and its quantity is n.
C1_AddAccumulates ==
  \A r \in Rid :
    LET q == reqs[r]
        run == r..Len(reqs)
    IN (/\ IsAdd(q)
        /\ ~AlreadyInCart(q.snapItems, q.pid)
        /\ \A k \in run : /\ IsAdd(reqs[k])
                          /\ reqs[k].user = q.user /\ reqs[k].pid = q.pid
                          /\ reqs[k].serial /\ Answered(reqs[k], 200))
       => \E i \in 1..Len(carts[q.user].items) :
            /\ LinesOf(carts[q.user].items, q.pid) = {i}
            /\ carts[q.user].items[i].quantity = Cardinality(run)

\* C2: an order request that finds no cart document or an empty line list is
\* answered 400 at once (500 if the read itself rejects), and that step creates no
\* order and changes no product and no cart.
C2_EmptyCartRejected ==
  [][\A u \in Users :
       LET n == Len(reqs')
       IN (/\ n = Len(reqs) + 1
           /\ IsOrder(reqs'[n]) /\ reqs'[n].user = u
           /\ (~carts[u].exists \/ carts[u].items = <<>>))
          => /\ \/ Answered(reqs'[n], 400)
                \/ Answered(reqs'[n], 500) /\ reqs'[n].details = Unavailable
             /\ reqs'[n].oid = 0
             /\ orders' = orders /\ products' = products /\ carts' = carts]_vars

\* Both an absent and an empty cart have been refused.
C2_Witness ==
  /\ \E r \in Rid : IsOrder(reqs[r]) /\ Answered(reqs[r], 400) /\ ~reqs[r].snapExists
  /\ \E r \in Rid : IsOrder(reqs[r]) /\ Answered(reqs[r], 400) /\ reqs[r].snapExists
  /\ orders = <<>>

\* C3: the order a successful order request stored has the items of the cart as
\* the request read it, and status "Pending", whatever the request body.
C3_OrderSnapshot ==
  \A r \in Rid :
    (IsOrder(reqs[r]) /\ Answered(reqs[r], 200))
      => /\ orders[reqs[r].oid].items = reqs[r].snapItems
         /\ orders[reqs[r].oid].status = "Pending"

\* C4: each settlement step of an order request, on a line whose product tracks
\* stock, adds 1 to that product's sales and takes 1 from its stock, whatever the
\* line's quantity, and changes no other product; an order request answered 200
\* has taken that step once for each line of its snapshot.
C4_PerLineSettlement ==
  [][/\ \A r \in Rid :
          (IsOrder(reqs[r]) /\ reqs[r].pc = "pupd" /\ reqs'[r].idx = reqs[r].idx + 1)
            => LET p == reqs[r].snapItems[reqs[r].idx].id
               IN products[p].hasStock
                    => /\ products'[p].sales = products[p].sales + 1
                       /\ products'[p].stock = products[p].stock - 1
                       /\ \A o \in Products \ {p} : products'[o] = products[o]
     /\ \A r \in Rid :
          reqs'[r].idx # reqs[r].idx
            => reqs'[r].idx = reqs[r].idx + 1 /\ reqs[r].pc \in {"persist", "pupd"}
     /\ \A r \in DOMAIN reqs' :
          (IsOrder(reqs'[r]) /\ Answered(reqs'[r], 200))
            => reqs'[r].idx = Len(reqs'[r].snapItems) + 1]_vars

\* An order of a quantity-2 line and a quantity-1 line went through: each product
\* sold once.
C4_Witness ==
  /\ Len(reqs) = 1
  /\ IsOrder(reqs[1]) /\ Answered(reqs[1], 200)
  /\ Len(reqs[1].snapItems) = 2 /\ reqs[1].snapItems[1].quantity = 2
  /\ \A p \in Products :
       /\ products[p].sales = InitProduct.sales + 1
       /\ products[p].stock = InitProduct.stock - 1

\* C5: a missing product never fails an order request: unless a store call
\* rejects for a reason of the store's own, an order request on a non-empty cart is
\* answered 200, having gone through every line, and the cart is cleared.
C5_DeletedProductSkipped ==
  \A r \in Rid :
    (/\ IsOrder(reqs[r]) /\ reqs[r].pc = "done"
     /\ reqs[r].snapItems # <<>> /\ reqs[r].details # Unavailable)
      => /\ reqs[r].status = 200
         /\ reqs[r].idx = Len(reqs[r].snapItems) + 1
         /\ carts[reqs[r].user].items = <<>>

\* C6: an order request that persisted its order and then failed is answered 500,
\* and its order is stored with status "Pending" and the snapshot items.
C6_OrderSurvives ==
  \A r \in Rid :
    (IsOrder(reqs[r]) /\ reqs[r].oid > 0 /\ reqs[r].pc = "done" /\ reqs[r].status # 200)
      => /\ reqs[r].status = 500
         /\ reqs[r].oid \in DOMAIN orders
         /\ orders[reqs[r].oid].status = "Pending"
         /\ orders[reqs[r].oid].items = reqs[r].snapItems

\* C7: once an order request of user u is answered 200 the cart document of u is
\* there with no line, retrieve returns no line, and an order request of u that
\* arrives after it is answered 400 (500 if its read rejects).
C7_CartClearedAndRetained ==
  \A r \in Rid :
    (IsOrder(reqs[r]) /\ Answered(reqs[r], 200))
      => LET u == reqs[r].user
         IN /\ carts[u].exists
            /\ carts[u].items = <<>>
            /\ RetrieveItems(carts[u]) = <<>>
            /\ \A k \in Rid :
                 (/\ k > r /\ IsOrder(reqs[k]) /\ reqs[k].user = u
                  /\ reqs[k].serial /\ reqs[k].pc = "done"
                  /\ reqs[k].details # Unavailable)
                   => Answered(reqs[k], 400)

\* An order went through and the same user's next order was refused.
C7_Witness ==
  \E r, k \in Rid :
    /\ r < k /\ reqs[r].user = reqs[k].user
    /\ IsOrder(reqs[r]) /\ Answered(reqs[r], 200) /\ reqs[r].snapExists
    /\ IsOrder(reqs[k]) /\ Answered(reqs[k], 400) /\ reqs[k].serial
    /\ carts[reqs[r].user] = EmptyCart

\* The order requests that reached settlement with a line for p.
Settling(p) == {r \in Rid : IsOrder(reqs[r]) /\ reqs[r].oid > 0
                             /\ AlreadyInCart(reqs[r].snapItems, p)}

\* C8: when every order request with a line for product p is answered 200, each
\* with one line for p, then however their store calls interleaved p's sales stands
\* at its first value plus their number and p's stock at its first value minus it.
C8_NoLostInventoryUpdate ==
  \A p \in Products :
    (/\ products[p].exists
     /\ \A r \in Settling(p) :
          /\ Answered(reqs[r], 200)
          /\ Cardinality(LinesOf(reqs[r].snapItems, p)) = 1)
      => /\ products[p].sales = InitProduct.sales + Cardinality(Settling(p))
         /\ products[p].stock = InitProduct.stock - Cardinality(Settling(p))

\* Two users' orders of the same product overlapped and both went through.
C8_Witness ==
  /\ Len(reqs) = 2
  /\ \A r \in Rid : IsOrder(reqs[r]) /\ Answered(reqs[r], 200)
  /\ reqs[1].user # reqs[2].user /\ ~reqs[2].serial
  /\ Settling("p1") = {1, 2}
  /\ products["p1"].sales = InitProduct.sales + 2

\* C9: every cart has at most one line for a product id, and every line has
\* quantity at least 1.
C9_CartLineUnique ==
  \A u \in Users :
    /\ \A i, j \in 1..Len(carts[u].items) :
         i # j => carts[u].items[i].id # carts[u].items[j].id
    /\ \A i \in 1..Len(carts[u].items) : carts[u].items[i].quantity >= 1

\* C10: once two add requests of one user for two products are both answered 200,
\* with no other request of that user, the cart has a line for each product.
C10_NoLostCartUpdate ==
  \A r1, r2 \in Rid :
    (/\ r1 # r2
     /\ IsAdd(reqs[r1]) /\ IsAdd(reqs[r2])
     /\ reqs[r1].user = reqs[r2].user /\ reqs[r1].pid # reqs[r2].pid
     /\ Answered(reqs[r1], 200) /\ Answered(reqs[r2], 200)
     /\ \A k \in Rid \ {r1, r2} : reqs[k].kind = "delete" \/ reqs[k].user # reqs[r1].user)
      => /\ AlreadyInCart(carts[reqs[r1].user].items, reqs[r1].pid)
         /\ AlreadyInCart(carts[reqs[r1].user].items, reqs[r2].pid)

\* ------------------------------------------------ claims on the cart reads
IsRetrieve(q) == q.kind \in {"retrieve", "retrieveCart"}
IsRemove(q) == q.kind \in {"remove", "removeTx"}

\* The step answers request r.
Completes(r) ==
  /\ r \in DOMAIN reqs' /\ reqs'[r].pc = "done"
  /\ r \notin Rid \/ reqs[r].pc # "done"

\* The step is one of request r.
Steps(r) == r \in DOMAIN reqs' /\ (r \notin Rid \/ reqs'[r] # reqs[r])

\* Request r ran with no other request in flight: the earlier ones were answered
\* when it arrived and none has arrived since.
Alone(r) == reqs'[r].serial /\ r = Len(reqs')

\* C17: a retrieve of a user who has no cart document, with the store answering,
\* is answered 200 with an empty list of lines.
C17_RetrieveAbsentCart ==
  \A r \in Rid :
    (IsRetrieve(reqs[r]) /\ reqs[r].pc = "done" /\ reqs[r].details # Unavailable
       /\ ~reqs[r].snapExists)
      => Answered(reqs[r], 200) /\ reqs[r].snapItems = <<>>

\* C18: a remove that runs alone, with the store answering, for a product id that
\* has no line in the caller's cart (or a caller with no cart document) is
\* answered 200 and leaves the carts as they were.
C18_RemoveNoOp ==
  [][\A r \in DOMAIN reqs' :
       (/\ Completes(r) /\ Alone(r) /\ IsRemove(reqs'[r])
        /\ reqs'[r].details # Unavailable
        /\ ~AlreadyInCart(CartItems(carts[reqs'[r].user]), reqs'[r].pid))
         => reqs'[r].status = 200 /\ carts' = carts]_vars

\* C19: an add that runs alone, with the store answering, for a product id that
\* has no Product document is answered 404 and leaves the carts as they were.
C19_AddValidatesProduct ==
  [][\A r \in DOMAIN reqs' :
       (/\ Completes(r) /\ Alone(r) /\ IsAdd(reqs'[r])
        /\ reqs'[r].details # Unavailable
        /\ ~products[reqs'[r].pid].exists)
         => reqs'[r].status = 404 /\ carts' = carts]_vars

\* C20: every stored order carries the user id of the request that stored it, and
\* the orders sent to a user are exactly the ones that user's requests stored.
C20_OrdersScopedToCaller ==
  /\ \A r \in Rid : IsOrder(reqs[r]) /\ reqs[r].oid > 0
        => orders[reqs[r].oid].userId = reqs[r].user
  /\ \A u \in Users :
        OrdersOf(u) = {reqs[r].oid : r \in {k \in Rid : IsOrder(reqs[k]) /\ reqs[k].oid > 0
                                                       /\ reqs[k].user = u}}

\* ------------------------------------------ claims on sellers and accounts
IsUpsert(q) == q.kind \in {"upsert", "upsertMerge"}
IsDeleteCard(q) == q.kind \in {"deleteCard", "deleteCardBatch"}
IsDeleteUser(q) == q.kind \in {"deleteUser", "deleteUserOnly"}

\* SellerProducts(u) in the store after the step.
ProductsAfter(u) == {p \in Products : products'[p].exists /\ products'[p].SellerID = u}

\* C11: when a seller-card upsert of a user whose Seller document exists, running
\* alone with a complete body, is answered 200, every product of that user carries
\* the title and genre of the body and every other product is as it was.
C11_UpdatePropagates ==
  [][\A r \in DOMAIN reqs' :
       (/\ Completes(r) /\ Alone(r) /\ IsUpsert(reqs'[r])
        /\ reqs'[r].snapExists /\ reqs'[r].status = 200)
         => \A p \in Products :
              IF p \in ProductsAfter(reqs'[r].user)
              THEN /\ products'[p].Seller = reqs'[r].body.title
                   /\ products'[p].genre = reqs'[r].body.genre
              ELSE products'[p] = products[p]]_vars

\* Every request has been answered and no call is in flight.
Quiescent == \A r \in Rid : reqs[r].pc = "done" /\ reqs[r].pending = {}

\* C12: in a quiescent state after a sequence of product creations and seller-card
\* creations, updates and deletions, run one after the other and all answered 2xx,
\* every product whose seller has a Seller document carries that document's title
\* and genre.
C12_SellerProductConsistent ==
  (/\ Quiescent
   /\ \A r \in Rid : /\ reqs[r].kind = "create" \/ IsUpsert(reqs[r]) \/ IsDeleteCard(reqs[r])
                     /\ reqs[r].serial /\ reqs[r].status \in {200, 201})
    => \A p \in Products :
         (products[p].exists /\ sellers[products[p].SellerID].exists)
           => /\ products[p].Seller = sellers[products[p].SellerID].title
              /\ products[p].genre = sellers[products[p].SellerID].genre

\* C13: a seller-card deletion that runs alone changes no product of another
\* seller and no other Seller document; when it is answered 200 no product of the
\* caller exists, the caller's Seller document does not exist, and the caller's
\* product list is empty.
C13_DeleteCardResult ==
  [][\A r \in DOMAIN reqs' :
       (Steps(r) /\ Alone(r) /\ IsDeleteCard(reqs'[r]))
         => LET u == reqs'[r].user
            IN /\ \A p \in Products : products[p].SellerID # u => products'[p] = products[p]
               /\ \A v \in Users \ {u} : sellers'[v] = sellers[v]
               /\ (Completes(r) /\ reqs'[r].status = 200)
                    => /\ \A p \in Products : ~(products'[p].exists /\ products'[p].SellerID = u)
                       /\ ~sellers'[u].exists
                       /\ ProductsAfter(u) = {}]_vars

\* A seller with two products deleted the card, alone, through the handler that
\* issues one delete for each product.
C13_Witness ==
  \E r \in Rid :
    /\ reqs[r].kind = "deleteCard" /\ Answered(reqs[r], 200)
    /\ reqs[r].serial /\ r = Len(reqs)
    /\ Cardinality(reqs[r].docs) = 2
    /\ ~sellers[reqs[r].user].exists
    /\ SellerProducts(reqs[r].user) = {}

\* C14: a step of a seller-card deletion that removes the Seller document of a user
\* is taken only when no product of that user is left, whatever the other requests
\* and whichever deletes failed.
C14_SellerRemovedLast ==
  [][\A r \in Rid :
       (/\ IsDeleteCard(reqs[r]) /\ reqs'[r] # reqs[r]
        /\ sellers[reqs[r].user].exists /\ ~sellers'[reqs[r].user].exists)
         => ProductsAfter(reqs[r].user) = {}]_vars

\* C15: a user deletion of a user whose Seller document exists, running alone,
\* removes the Seller document only when no product of the user is left, the Users
\* document only when the Seller document is gone and the identity only when the
\* Users document is gone; when it is answered 200 none of them is left.
C15_UserDeletionCascade ==
  [][\A r \in DOMAIN reqs' :
       (/\ Steps(r) /\ Alone(r)
        /\ IsDeleteUser(reqs'[r]) /\ reqs'[r].snapExists)
         => LET u == reqs'[r].user
            IN /\ (sellers[u].exists /\ ~sellers'[u].exists) => ProductsAfter(u) = {}
               /\ (accounts[u].doc /\ ~accounts'[u].doc) => ~sellers'[u].exists
               /\ (accounts[u].identity /\ ~accounts'[u].identity) => ~accounts'[u].doc
               /\ (Completes(r) /\ reqs'[r].status = 200)
                    => /\ ProductsAfter(u) = {}
                       /\ ~sellers'[u].exists
                       /\ ~accounts'[u].doc /\ ~accounts'[u].identity]_vars

\* C16: when the only request of a behaviour is a seller-card or user request that
\* a failed store or identity call ends with 500, the store is as it was at the
\* start.
C16_NoPartialSideEffects ==
  (/\ Len(reqs) = 1 /\ Answered(reqs[1], 500)
   /\ IsUpsert(reqs[1]) \/ IsDeleteCard(reqs[1]) \/ IsDeleteUser(reqs[1]))
    => /\ [sellers |-> sellers, products |-> products] \in InitStores
       /\ accounts = [u \in Users |-> Account]

\* --------------------------------------------------- claims on the responses
\* C21: a request that a failing store call ended has been answered, with a 4xx or
\* 5xx status and a body that carries an error field.
C21_StructuredError ==
  \A r \in Rid :
    reqs[r].details # ""
      => /\ reqs[r].pc = "done"
         /\ reqs[r].status >= 400 /\ reqs[r].status < 600
         /\ "error" \in reqs[r].keys

\* ------------------------------------------------- claims on product totals
RECURSIVE SumAmounts(_)
SumAmounts(S) ==
  IF S = {} THEN 0
  ELSE LET r == CHOOSE x \in S : TRUE IN reqs[r].amount + SumAmounts(S \ {r})

\* C30: when every request of a behaviour is a total patch with a numeric amount
\* and all are answered 200, each product's total is the sum of the amounts
\* patched onto it (the products start with no total).
C30_TotalAccumulates ==
  (\A r \in Rid : reqs[r].kind = "patch" /\ Answered(reqs[r], 200))
    => \A p \in Products :
         products[p].exists
           => CurrentTotal(products[p]) = SumAmounts({r \in Rid : reqs[r].pid = p})

\* ------------------------------------------ claims on concurrent requests
\* C27: two order requests of one user that are in flight together on the same
\* non-empty cart content have not both stored an order, and have not both
\* settled the same line of it on a product that exists.
C27_SingleSettlement ==
  \A r1, r2 \in Rid :
    (/\ r1 < r2 /\ IsOrder(reqs[r1]) /\ IsOrder(reqs[r2])
     /\ reqs[r1].user = reqs[r2].user
     /\ reqs[r1].pc # "done" /\ reqs[r2].pc # "done"
     /\ reqs[r1].snapItems # <<>> /\ reqs[r1].snapItems = reqs[r2].snapItems)
      => /\ ~(reqs[r1].oid > 0 /\ reqs[r2].oid > 0)
         /\ \A i \in 1..Len(reqs[r1].snapItems) :
              products[reqs[r1].snapItems[i].id].exists
                => ~(reqs[r1].idx > i /\ reqs[r2].idx > i)

\* C28: when an order request clears the cart, every line the cart holds at that
\* moment (each one put there by an add answered 200) is a line of the items the
\* request ordered.
C28_NoLineDroppedUnordered ==
  [][\A r \in Rid :
       (/\ IsOrder(reqs[r]) /\ reqs[r].pc = "clear"
        /\ carts'[reqs[r].user] # carts[reqs[r].user])
         => \A i \in 1..Len(carts[reqs[r].user].items) :
              LinesOf(reqs[r].snapItems, carts[reqs[r].user].items[i].id) # {}]_vars

\* C29: once two seller-card updates of one existing seller, and nothing else,
\* have both been answered 200, every product of that seller carries the title
\* and genre of the Seller document.
C29_SellerUpdatesConverge ==
  (/\ Quiescent /\ Len(reqs) = 2
   /\ reqs[1].user = reqs[2].user
   /\ \A r \in Rid : /\ reqs[r].kind = "upsert" /\ reqs[r].snapExists
                     /\ Answered(reqs[r], 200))
    => \A p \in SellerProducts(reqs[1].user) :
         /\ products[p].Seller = sellers[reqs[1].user].title
         /\ products[p].genre = sellers[reqs[1].user].genre

\* ------------------------------------------- claims on the settlement steps
\* C24: the sales or stock of a product changes only by an order request whose
\* order is stored; the cart changes only by an order request that has settled
\* every line of its snapshot, with no failure before; and a request a failure
\* ended takes no further step.
C24_StepOrdering ==
  [][/\ (\E p \in Products : /\ products'[p].exists
                               /\ \/ products'[p].sales # products[p].sales
                                  \/ products'[p].stock # products[p].stock)
          => \E r \in Rid : /\ Steps(r) /\ IsOrder(reqs[r])
                            /\ reqs[r].oid \in DOMAIN orders
     /\ carts' # carts
          => \E r \in Rid : /\ Steps(r) /\ IsOrder(reqs[r])
                            /\ reqs[r].oid \in DOMAIN orders
                            /\ reqs[r].idx = Len(reqs[r].snapItems) + 1
                            /\ reqs[r].details = ""
                            /\ carts' = [carts EXCEPT ![reqs[r].user] = ClearedCart(@)]
     /\ \A r \in Rid : Answered(reqs[r], 500) => reqs'[r] = reqs[r]]_vars

\* An order of two lines went through to the cart clear, and another one failed
\* on the way and left its cart as it was.
C24_Witness ==
  /\ \E r \in Rid : /\ IsOrder(reqs[r]) /\ Answered(reqs[r], 200)
                    /\ Len(reqs[r].snapItems) = 2
                    /\ carts[reqs[r].user].items = <<>>
  /\ \E r \in Rid : /\ IsOrder(reqs[r]) /\ Answered(reqs[r], 500) /\ reqs[r].oid > 0
                    /\ carts[reqs[r].user].items = reqs[r].snapItems

\* C25: the settlement step of a line whose product exists and has no stock field
\* adds 1 to the product's sales and changes nothing else of it: it still has no
\* stock field.
C25_UntrackedInventory ==
  [][\A r \in Rid :
       (IsOrder(reqs[r]) /\ reqs[r].pc = "pupd" /\ reqs'[r].idx = reqs[r].idx + 1)
         => LET p == reqs[r].snapItems[reqs[r].idx].id
            IN ~products[p].hasStock
                 => /\ products'[p] = [products[p] EXCEPT !.sales = @ + 1]
                    /\ ~products'[p].hasStock]_vars

\* An order with a line on an untracked product was answered 200: one sale, and
\* no stock field.
C25_Witness ==
  \E r \in Rid :
    /\ IsOrder(reqs[r]) /\ Answered(reqs[r], 200) /\ Len(reqs) = 1
    /\ \E i \in 1..Len(reqs[r].snapItems) :
         LET p == reqs[r].snapItems[i].id
         IN /\ ~products[p].hasStock
            /\ products[p].sales = UntrackedProduct.sales + 1
            /\ products[p].stock = UntrackedProduct.stock

\* C26: every product with a stock field has, in every reachable state of the
\* order requests, the stock + sales it started with.
C26_StockSalesConserved ==
  \A p \in Products :
    (products[p].exists /\ products[p].hasStock)
      => products[p].stock + products[p].sales = InitProduct.stock + InitProduct.sales

\* Two orders that were in flight together have both settled the same tracked
\* product.
C26_Witness ==
  \E p \in Products :
    /\ products[p].hasStock /\ products[p].sales = InitProduct.sales + 2
    /\ \E r \in Rid : ~reqs[r].serial /\ IsOrder(reqs[r]) /\ reqs[r].idx > 1

\* --------------------------------------------------- claims on order history
\* C22: no step of any handler removes a stored order or changes one: its items,
\* userId, status, createdAt and every other field stay as they were written (and
\* with the items, the total computed from them).
C22_OrderImmutable ==
  [][\A i \in DOMAIN orders : i \in DOMAIN orders' /\ orders'[i] = orders[i]]_vars

\* After the order: its product was edited or deleted, and a second order was
\* stored next to it.
C22_Witness ==
  /\ Len(orders) = 2
  /\ orders[1] = OrderPayload("u1", OneLineCart.items, [address |-> "x"])
  /\ \E r \in Rid : reqs[r].kind \in {"edit", "delete"} /\ Answered(reqs[r], 200)

\* ------------------------------------------- claims on the monthly report
IsMonthly(q) == q.kind = "monthly" /\ Answered(q, 200)

\* The months counted from year 0.
MonthNumber(year, month) == year * 12 + month
BucketMonth(bucket) ==
  MonthNumber(bucket.year, CHOOSE m \in 0..11 : MonthName(Date(0, m, 1)) = bucket.month)

\* What a line contributes by the claim: the amount its price spells with every
\* character other than digits, dot and minus taken out ("R12.50" is 12.50,
\* "-R1,000.50-" is -1000.50), 0 for a price with no number in it or no price,
\* times its quantity, 1 for a quantity that is no number.
ClaimedPrice(price) ==
  CASE price = StringPrice(<<"R", "1", "2", ".", "5", "0">>) -> 12500
    [] price = NumberPrice(3000) -> 3000
    [] price = StringPrice(<<"f", "r", "e", "e">>) -> 0
    [] price = NoPrice -> 0
    [] price = StringPrice(<<"-", "R", "1", ",", "0", "0", "0", ".", "5", "0", "-">>)
         -> 0 - 1000500
    [] price = NumberPrice(4) -> 4
ClaimedQuantity(quantity) == IF quantity = NumberQuantity(2) THEN 2 ELSE 1

RECURSIVE ClaimedOrderTotal(_)
ClaimedOrderTotal(items) ==
  IF items = <<>> THEN 0
  ELSE ClaimedPrice(Head(items).price) * ClaimedQuantity(Head(items).quantity)
         + ClaimedOrderTotal(Tail(items))

\* The multiple of a hundredth nearest to x.
Nearest(x) == CHOOSE n \in (x - 5)..(x + 5) : n % 10 = 0 /\ (n - x) * (n - x) < 25

\* The orders of month number m.
OrdersOfMonth(m) ==
  {i \in DOMAIN orders : MonthNumber(orders[i].createdAt.year, orders[i].createdAt.month) = m}

RECURSIVE SumOver(_, _)
SumOver(S, rounded) ==
  IF S = {} THEN 0
  ELSE LET i == CHOOSE x \in S : TRUE
           t == ClaimedOrderTotal(orders[i].items)
       IN (IF rounded THEN Nearest(t) ELSE t) + SumOver(S \ {i}, rounded)

\* The report has 12 buckets, the months up to the one of the request in their
\* order, each with the sum of the order totals of its month.
Report(q, rounded) ==
  /\ Len(q.snapItems) = 12
  /\ \A k \in 1..Len(q.snapItems) :
       LET m == MonthNumber(q.now.year, q.now.month) - (12 - k)
       IN /\ BucketMonth(q.snapItems[k]) = m
          /\ q.snapItems[k].total = SumOver(OrdersOfMonth(m), rounded)

\* C23 as stated: the monthly report has one bucket for each of the 12 months that
\* end with the current one, in chronological order, and the total of each is the
\* sum of price x quantity over the lines of the orders of that month (0 with no
\* order).
C23_MonthlySums ==
  \A r \in Rid : IsMonthly(reqs[r]) => Report(reqs[r], FALSE)

\* C23 as amended: the same, with each order's total rounded to the hundredth
\* before it is added to its month.
C23_MonthlyRoundedSums ==
  \A r \in Rid : IsMonthly(reqs[r]) => Report(reqs[r], TRUE)

\* A report of November 2026 on two orders of that month, one of 2 x "R12.50" and
\* one of a number price with a string quantity; December 2025 has no order.
C23_Witness ==
  \E r \in Rid :
    /\ IsMonthly(reqs[r]) /\ reqs[r].now = Date(2026, 10, 2)
    /\ Len(orders) = 2 /\ OrdersOfMonth(MonthNumber(2026, 10)) = {1, 2}
    /\ reqs[r].snapItems[12] = [month |-> "Nov", year |-> 2026, total |-> 28000]
    /\ reqs[r].snapItems[1] = [month |-> "Dec", year |-> 2025, total |-> 0]
====
